---- MODULE Spec2Model ----
(***************************************************************************)
(* NFTagent: an ERC721 collection with lazy minting (src/unnamed/part_000). *)
(* The contract's storage, its Ether balance and its event log are the      *)
(* state; every external function is one action.  A transaction is atomic:  *)
(* a failed require (or a checked-arithmetic panic) reverts every write of  *)
(* the call.  The two places where the contract hands control to another    *)
(* account (the onERC721Received hook of _safeMint, and the Ether transfer  *)
(* of withdraw) are modelled with the callee's choice of behaviour,         *)
(* including one re-entrant call into the contract.                         *)
(***************************************************************************)
EXTENDS Integers, Sequences, FiniteSets, TLC

VARIABLES
    owners,          \* ERC721._owners: id -> holder, address(0) when unclaimed
    tokenApprovals,  \* ERC721._tokenApprovals: id -> approved account
    tokenURIs,       \* mapping(uint256 => string) tokenURIs
    revokedIds,      \* mapping(uint256 => bool) revokedIds
    totalSupply,     \* uint256 totalSupply
    idFloor,         \* uint256 idFloor
    balance,         \* address(this).balance
    events,          \* the log: IdRevoked, IdFloorSet, Receipt, Withdrawal
    issued           \* the log: how many Transfer(address(0), to, id) per id

vars == <<owners, tokenApprovals, tokenURIs, revokedIds, totalSupply,
          idFloor, balance, events, issued>>

(* ------------------------------ bounds --------------------------------- *)

\* token ids are 0 .. MaxId
MaxId == 1
\* Ether amounts (msg.value, the contract's balance) are 0 .. MaxWei
MaxWei == 1
\* the event log holds at most MaxEvents entries
MaxEvents == 2

(* ------------------------------ domains -------------------------------- *)

\* address(0)
NoAddr == "0x0"
\* the deployer, stored in the immutable `owner`
Owner == "owner"
\* any other account
User == "user"
\* what ECDSA.recover yields for a signature made over another digest
Stranger == "stranger"

Addr == {Owner, User}
Ids == 0 .. MaxId
Floors == 0 .. (MaxId + 1)
Wei == 0 .. MaxWei
EmptyURI == ""
URIs == {EmptyURI, "ipfs://a", "ipfs://b"}

\* the reason of a call that did not revert
NoError == "ok"

(* --------------------------- contract state ---------------------------- *)

\* the storage, balance and log of the contract as one value
State ==
    [owners |-> owners, tokenApprovals |-> tokenApprovals,
     tokenURIs |-> tokenURIs, revokedIds |-> revokedIds,
     totalSupply |-> totalSupply, idFloor |-> idFloor, balance |-> balance,
     events |-> events, issued |-> issued]

\* the state the constructor leaves
Constructed ==
    [owners |-> [i \in Ids |-> NoAddr],
     tokenApprovals |-> [i \in Ids |-> NoAddr],
     tokenURIs |-> [i \in Ids |-> EmptyURI],
     revokedIds |-> [i \in Ids |-> FALSE],
     totalSupply |-> 0, idFloor |-> 0, balance |-> 0,
     events |-> <<>>,
     issued |-> [i \in Ids |-> 0]]

\* the outcome of a call: reverted with a reason, or returned with a state
Revert(reason) == [ok |-> FALSE, reason |-> reason]
Return(S) == [ok |-> TRUE, reason |-> NoError, st |-> S]

\* the events of the contract
IdRevoked(id) == [name |-> "IdRevoked", arg |-> id]
IdFloorSet(floor) == [name |-> "IdFloorSet", arg |-> floor]
Receipt(value) == [name |-> "Receipt", arg |-> value]
Withdrawal(value) == [name |-> "Withdrawal", arg |-> value]

emit(S, e) == [S EXCEPT !.events = Append(@, e)]

(* ------------------------- EIP712 and ECDSA ---------------------------- *)

\* _hash that leaves the price out of the digest
_hash_NoPrice(weiPrice, id, uri) ==
    <<"NFTagent", "1.0.0", "NFT", id, uri>>

\* _hash: the EIP712 digest of the terms, bound to the domain name and
\* version the constructor passes to EIP712 (keccak256 taken as injective)
_hash(weiPrice, id, uri) ==
    <<"NFTagent", "1.0.0", "NFT", weiPrice, id, uri>>

\* a signature, as the off-chain signer makes it
Sign(signer, digest) ==
    [wellFormed |-> TRUE, signer |-> signer, digest |-> digest]

\* bytes that are no signature at all (wrong length, bad s or v)
Malformed ==
    [wellFormed |-> FALSE, signer |-> NoAddr, digest |-> <<>>]

\* ECDSA.recover: reverts on a malformed signature; yields the signer when
\* the signature was made over this digest, and an unrelated address when
\* it was made over another one
ECDSA_recover(digest, signature) ==
    IF ~signature.wellFormed THEN Revert("ECDSA: invalid signature")
    ELSE [ok |-> TRUE, reason |-> NoError,
          signer |-> IF signature.digest = digest THEN signature.signer
                     ELSE Stranger]

\* every signature over terms of the model, and the malformed one
Signatures ==
    { Sign(s, _hash(p, i, u)) : s \in Addr, p \in Wei, i \in Ids, u \in URIs }
        \cup {Malformed}

\* the signatures a caller presents with mint(id, uri){value}: the ones over
\* exactly these terms, the principal's over terms that differ in one field,
\* and the malformed one
Presented(value, id, uri) ==
    { Sign(s, _hash(value, id, uri)) : s \in Addr }
        \cup { Sign(Owner, _hash(p, id, uri)) : p \in Wei }
        \cup { Sign(Owner, _hash(value, i, uri)) : i \in Ids }
        \cup { Sign(Owner, _hash(value, id, u)) : u \in URIs }
        \cup {Malformed}

(* ------------------ what a called account may do ----------------------- *)

\* a call back into the contract, made by the account that was handed control
NoCall == [op |-> "none", id |-> 0, to |-> NoAddr, value |-> 0]
BurnCall(id) == [op |-> "burn", id |-> id, to |-> NoAddr, value |-> 0]
TransferCall(to, id) == [op |-> "transferFrom", id |-> id, to |-> to, value |-> 0]
PayCall(value) == [op |-> "receive", id |-> 0, to |-> NoAddr, value |-> value]
WithdrawCall == [op |-> "withdraw", id |-> 0, to |-> NoAddr, value |-> 0]

\* the calls an account may make while it is handed control
ReentrantCalls(actor) ==
    { BurnCall(i) : i \in Ids }
        \cup { TransferCall(a, i) : a \in Addr \ {actor}, i \in Ids }
        \cup { PayCall(v) : v \in Wei \ {0} }
        \cup {WithdrawCall}

\* the called account takes what it is handed and returns (an externally
\* owned account always does)
HookAccept == [kind |-> "accept", call |-> NoCall]
\* the called account reverts, or has no such function
HookReject == [kind |-> "reject", call |-> NoCall]
\* the called account calls back into the contract once, then accepts
HookReenter(call) == [kind |-> "reenter", call |-> call]

Hooks(actor) ==
    {HookAccept, HookReject} \cup { HookReenter(c) : c \in ReentrantCalls(actor) }

RECURSIVE runHook(_, _, _)

(* ------------------------------ ERC721 --------------------------------- *)

_exists(S, id) == S.owners[id] # NoAddr

\* ERC721._isApprovedOrOwner, for a token that exists (an operator approved
\* with setApprovalForAll passes it as the account approved for the token
\* does, and reaches no other state)
_isApprovedOrOwner(S, spender, id) ==
    \/ spender = S.owners[id]
    \/ spender = S.tokenApprovals[id]

\* ERC721.approve
approve(S, caller, to, id) ==
    IF ~_exists(S, id) THEN Revert("ERC721: owner query for nonexistent token")
    ELSE IF to = S.owners[id] THEN Revert("ERC721: approval to current owner")
    ELSE IF caller # S.owners[id]
        THEN Revert("ERC721: approve caller is not owner nor approved for all")
    ELSE Return([S EXCEPT !.tokenApprovals[id] = to])

\* ERC721.transferFrom
transferFrom(S, caller, from, to, id) ==
    IF ~_exists(S, id) THEN Revert("ERC721: operator query for nonexistent token")
    ELSE IF ~_isApprovedOrOwner(S, caller, id)
        THEN Revert("ERC721: transfer caller is not owner nor approved")
    ELSE IF S.owners[id] # from THEN Revert("ERC721: transfer of token that is not own")
    ELSE IF to = NoAddr THEN Revert("ERC721: transfer to the zero address")
    ELSE Return([S EXCEPT !.tokenApprovals[id] = NoAddr, !.owners[id] = to])

\* ERC721._mint: records the holder and logs Transfer(0, to, id); `issued`
\* counts these log entries per id
ERC721_mint(S, to, id) ==
    IF to = NoAddr THEN Revert("ERC721: mint to the zero address")
    ELSE IF _exists(S, id) THEN Revert("ERC721: token already minted")
    ELSE Return([S EXCEPT !.owners[id] = to, !.issued[id] = @ + 1])

\* ERC721._safeMint: _mint, then the recipient's onERC721Received
_safeMint(S, to, id, hook) ==
    LET m == ERC721_mint(S, to, id) IN
    IF ~m.ok THEN m
    ELSE IF hook.kind = "reject"
        THEN Revert("ERC721: transfer to non ERC721Receiver implementer")
    ELSE Return(runHook(m.st, to, hook))

\* ERC721._burn
ERC721_burn(S, id) ==
    IF ~_exists(S, id) THEN Revert("ERC721: owner query for nonexistent token")
    ELSE Return([S EXCEPT !.tokenApprovals[id] = NoAddr, !.owners[id] = NoAddr])

(* ----------------------------- NFTagent -------------------------------- *)

\* vacant that takes the holder's absence for granted
vacant_NoExistsCheck(S, id) ==
    IF ~(id >= S.idFloor) THEN "tokenId below floor"
    ELSE IF S.revokedIds[id] THEN "tokenId revoked or burnt"
    ELSE NoError

\* vacant that does not look at the revoked flag
vacant_NoRevokedCheck(S, id) ==
    IF _exists(S, id) THEN "tokenId already minted"
    ELSE IF ~(id >= S.idFloor) THEN "tokenId below floor"
    ELSE NoError

\* vacant that takes an id equal to the floor as below it
vacant_StrictFloor(S, id) ==
    IF _exists(S, id) THEN "tokenId already minted"
    ELSE IF ~(id > S.idFloor) THEN "tokenId below floor"
    ELSE IF S.revokedIds[id] THEN "tokenId revoked or burnt"
    ELSE NoError

\* vacant: NoError when the id can be minted, else the reason of the first
\* require that fails
vacant(S, id) ==
    IF _exists(S, id) THEN "tokenId already minted"
    ELSE IF ~(id >= S.idFloor) THEN "tokenId below floor"
    ELSE IF S.revokedIds[id] THEN "tokenId revoked or burnt"
    ELSE NoError

\* mintable that recovers the signer before it looks at the id
mintable_SignatureFirst(S, weiPrice, id, uri, signature) ==
    LET signer == ECDSA_recover(_hash(weiPrice, id, uri), signature) IN
    IF ~signer.ok THEN signer.reason
    ELSE IF Owner # signer.signer THEN "signature invalid or signer unauthorized"
    ELSE vacant(S, id)

\* mintable: NoError when the id is vacant and the signature is the owner's
\* over (weiPrice, id, uri), else the reason of the revert
mintable(S, weiPrice, id, uri, signature) ==
    LET signer == ECDSA_recover(_hash(weiPrice, id, uri), signature) IN
    IF vacant(S, id) # NoError THEN vacant(S, id)
    ELSE IF ~signer.ok THEN signer.reason
    ELSE IF Owner # signer.signer THEN "signature invalid or signer unauthorized"
    ELSE NoError

\* _setTokenURI without its require
_setTokenURI_NoCheck(S, id, uri) ==
    Return([S EXCEPT !.tokenURIs[id] = uri])

\* _setTokenURI
_setTokenURI(S, id, uri) ==
    IF ~(uri # EmptyURI) THEN Revert("tokenURI cannot be empty")
    ELSE Return([S EXCEPT !.tokenURIs[id] = uri])

\* _mint that forgets to count the token
_mint_NoCount(S, recipient, id, uri, hook) ==
    LET minted == _safeMint(S, recipient, id, hook) IN
    IF ~minted.ok THEN minted
    ELSE _setTokenURI(minted.st, id, uri)

\* _mint: _safeMint (which runs the recipient's hook), then the URI, then
\* the supply
_mint(S, recipient, id, uri, hook) ==
    LET minted == _safeMint(S, recipient, id, hook) IN
    IF ~minted.ok THEN minted
    ELSE LET stored == _setTokenURI(minted.st, id, uri) IN
         IF ~stored.ok THEN stored
         ELSE Return([stored.st EXCEPT !.totalSupply = @ + 1])

\* _burn that forgets to retire the id
_burn_NoRevoke(S, id) ==
    LET burnt == ERC721_burn(S, id) IN
    IF ~burnt.ok THEN burnt
    ELSE IF burnt.st.totalSupply = 0 THEN Revert("panic: arithmetic underflow")
    ELSE Return([burnt.st EXCEPT !.tokenURIs[id] = EmptyURI,
                                 !.totalSupply = @ - 1])

\* _burn that leaves the URI in place
_burn_KeepsURI(S, id) ==
    LET burnt == ERC721_burn(S, id) IN
    IF ~burnt.ok THEN burnt
    ELSE IF burnt.st.totalSupply = 0 THEN Revert("panic: arithmetic underflow")
    ELSE Return([burnt.st EXCEPT !.revokedIds[id] = TRUE,
                                 !.totalSupply = @ - 1])

\* _burn: ERC721._burn, then the URI, the revoked flag and the supply
\* (uint256: the subtraction panics at 0)
_burn(S, id) ==
    LET burnt == ERC721_burn(S, id) IN
    IF ~burnt.ok THEN burnt
    ELSE IF burnt.st.totalSupply = 0 THEN Revert("panic: arithmetic underflow")
    ELSE Return([burnt.st EXCEPT !.tokenURIs[id] = EmptyURI,
                                 !.revokedIds[id] = TRUE,
                                 !.totalSupply = @ - 1])

\* burn that does not look at the caller
burn_Anyone(S, caller, id) ==
    IF ~_exists(S, id) THEN Revert("ERC721: operator query for nonexistent token")
    ELSE _burn(S, id)

\* ERC721Burnable.burn
burn(S, caller, id) ==
    IF ~_exists(S, id) THEN Revert("ERC721: operator query for nonexistent token")
    ELSE IF ~_isApprovedOrOwner(S, caller, id)
        THEN Revert("ERC721Burnable: caller is not owner nor approved")
    ELSE _burn(S, id)

\* receive
receive(S, value) ==
    Return(emit([S EXCEPT !.balance = @ + value], Receipt(value)))

\* withdraw that does not look at the outcome of the transfer
withdraw_IgnoresFailure(S, caller, hook) ==
    IF ~(caller = Owner) THEN Revert("unauthorized to withdraw")
    ELSE IF hook.kind = "reject" THEN Return(emit(S, Withdrawal(S.balance)))
    ELSE Return(emit(runHook([S EXCEPT !.balance = 0], caller, hook),
                     Withdrawal(S.balance)))

\* withdraw: the whole balance leaves with the call to the caller, whose
\* code then runs; the event follows the call
withdraw(S, caller, hook) ==
    IF ~(caller = Owner) THEN Revert("unauthorized to withdraw")
    ELSE IF hook.kind = "reject" THEN Revert("transfer failed")
    ELSE Return(emit(runHook([S EXCEPT !.balance = 0], caller, hook),
                     Withdrawal(S.balance)))

\* mintAuthorized
mintAuthorized(S, caller, recipient, id, uri, hook) ==
    IF ~(caller = Owner) THEN Revert("unauthorized to mint")
    ELSE IF vacant(S, id) # NoError THEN Revert(vacant(S, id))
    ELSE _mint(S, recipient, id, uri, hook)

\* mint that credits the owner instead of the caller
mint_CreditsOwner(S, caller, value, id, uri, signature, hook) ==
    LET paid == [S EXCEPT !.balance = @ + value] IN
    IF mintable(paid, value, id, uri, signature) # NoError
        THEN Revert(mintable(paid, value, id, uri, signature))
    ELSE _mint(paid, Owner, id, uri, hook)

\* mint (payable: the attached value is the contract's before the body runs)
mint(S, caller, value, id, uri, signature, hook) ==
    LET paid == [S EXCEPT !.balance = @ + value] IN
    IF mintable(paid, value, id, uri, signature) # NoError
        THEN Revert(mintable(paid, value, id, uri, signature))
    ELSE _mint(paid, caller, id, uri, hook)

\* revokeId that any caller may use
revokeId_Anyone(S, caller, id) ==
    IF vacant(S, id) # NoError THEN Revert(vacant(S, id))
    ELSE Return(emit([S EXCEPT !.revokedIds[id] = TRUE], IdRevoked(id)))

\* revokeId that does not ask whether the id is vacant
revokeId_NoVacantCheck(S, caller, id) ==
    IF ~(caller = Owner) THEN Revert("unauthorized to revoke id")
    ELSE Return(emit([S EXCEPT !.revokedIds[id] = TRUE], IdRevoked(id)))

\* revokeId
revokeId(S, caller, id) ==
    IF ~(caller = Owner) THEN Revert("unauthorized to revoke id")
    ELSE IF vacant(S, id) # NoError THEN Revert(vacant(S, id))
    ELSE Return(emit([S EXCEPT !.revokedIds[id] = TRUE], IdRevoked(id)))

\* setIdFloor that writes the revocation into every id it passes
setIdFloor_MarksEachId(S, caller, floor) ==
    IF ~(caller = Owner) THEN Revert("unauthorized to set idFloor")
    ELSE IF ~(floor > S.idFloor) THEN Revert("must exceed current floor")
    ELSE Return(emit([S EXCEPT !.idFloor = floor,
                               !.revokedIds = [i \in Ids |-> i < floor \/ @[i]]],
                     IdFloorSet(floor)))

\* setIdFloor that clears the flags the new floor makes redundant
setIdFloor_ClearsBelow(S, caller, floor) ==
    IF ~(caller = Owner) THEN Revert("unauthorized to set idFloor")
    ELSE IF ~(floor > S.idFloor) THEN Revert("must exceed current floor")
    ELSE Return(emit([S EXCEPT !.idFloor = floor,
                               !.revokedIds = [i \in Ids |-> i >= floor /\ @[i]]],
                     IdFloorSet(floor)))

\* setIdFloor that only requires a different floor
setIdFloor_AnyOther(S, caller, floor) ==
    IF ~(caller = Owner) THEN Revert("unauthorized to set idFloor")
    ELSE IF ~(floor # S.idFloor) THEN Revert("must exceed current floor")
    ELSE Return(emit([S EXCEPT !.idFloor = floor], IdFloorSet(floor)))

\* setIdFloor
setIdFloor(S, caller, floor) ==
    IF ~(caller = Owner) THEN Revert("unauthorized to set idFloor")
    ELSE IF ~(floor > S.idFloor) THEN Revert("must exceed current floor")
    ELSE Return(emit([S EXCEPT !.idFloor = floor], IdFloorSet(floor)))

\* tokenURI
tokenURI(S, id) == S.tokenURIs[id]

\* the state after the code of `actor`, handed control in state S, has run:
\* its one call back into the contract takes effect if it succeeds and is
\* rolled back (and caught by the actor) if it reverts
runHook(S, actor, hook) ==
    LET c == hook.call
        r == CASE c.op = "burn" -> burn(S, actor, c.id)
               [] c.op = "transferFrom" -> transferFrom(S, actor, actor, c.to, c.id)
               [] c.op = "receive" -> receive(S, c.value)
               [] c.op = "withdraw" -> withdraw(S, actor, HookAccept)
               [] OTHER -> Return(S)
    IN IF hook.kind = "reenter" /\ r.ok THEN r.st ELSE S

(* ----------------------------- actions --------------------------------- *)

\* what a completed transaction leaves: the state it returned, or the state
\* it started from when it reverted
After(r) == IF r.ok THEN r.st ELSE State

\* the bounds of the model: amounts and the log stay within them
InBounds(S) == S.balance <= MaxWei /\ Len(S.events) <= MaxEvents

Commit(S) ==
    /\ InBounds(S)
    /\ owners' = S.owners
    /\ tokenApprovals' = S.tokenApprovals
    /\ tokenURIs' = S.tokenURIs
    /\ revokedIds' = S.revokedIds
    /\ totalSupply' = S.totalSupply
    /\ idFloor' = S.idFloor
    /\ balance' = S.balance
    /\ events' = S.events
    /\ issued' = S.issued

\* the behaviours of the called account that can make a difference: when the
\* call reverts although the account accepts, it reverts whatever else the
\* account does
HooksOf(actor, accepted) ==
    IF accepted.ok THEN Hooks(actor) ELSE {HookAccept, HookReject}

Init ==
    /\ owners = Constructed.owners
    /\ tokenApprovals = Constructed.tokenApprovals
    /\ tokenURIs = Constructed.tokenURIs
    /\ revokedIds = Constructed.revokedIds
    /\ totalSupply = Constructed.totalSupply
    /\ idFloor = Constructed.idFloor
    /\ balance = Constructed.balance
    /\ events = Constructed.events
    /\ issued = Constructed.issued

Receive ==
    \E value \in Wei :
        Commit(After(receive(State, value)))

Withdraw ==
    \E caller \in Addr :
        \E hook \in HooksOf(caller, withdraw(State, caller, HookAccept)) :
            Commit(After(withdraw(State, caller, hook)))

MintAuthorized ==
    \E caller \in Addr, recipient \in Addr \cup {NoAddr}, id \in Ids, uri \in URIs :
        \E hook \in HooksOf(recipient,
                mintAuthorized(State, caller, recipient, id, uri, HookAccept)) :
            Commit(After(mintAuthorized(State, caller, recipient, id, uri, hook)))

Mint ==
    \E caller \in Addr, value \in Wei, id \in Ids, uri \in URIs :
        \E signature \in Presented(value, id, uri) :
            \E hook \in HooksOf(caller,
                    mint(State, caller, value, id, uri, signature, HookAccept)) :
                Commit(After(mint(State, caller, value, id, uri, signature, hook)))

RevokeId ==
    \E caller \in Addr, id \in Ids :
        Commit(After(revokeId(State, caller, id)))

SetIdFloor ==
    \E caller \in Addr, floor \in Floors :
        Commit(After(setIdFloor(State, caller, floor)))

Burn ==
    \E caller \in Addr, id \in Ids :
        Commit(After(burn(State, caller, id)))

Approve ==
    \E caller \in Addr, to \in Addr \cup {NoAddr}, id \in Ids :
        Commit(After(approve(State, caller, to, id)))

TransferFrom ==
    \E caller \in Addr, from \in Addr, to \in Addr \cup {NoAddr}, id \in Ids :
        Commit(After(transferFrom(State, caller, from, to, id)))

Next ==
    \/ Receive
    \/ Withdraw
    \/ MintAuthorized
    \/ Mint
    \/ RevokeId
    \/ SetIdFloor
    \/ Burn
    \/ Approve
    \/ TransferFrom

Spec == Init /\ [][Next]_vars

(* ============================== claims ================================= *)

\* the ids that are claimed (held by some account)
Claimed(S) == { i \in Ids : _exists(S, i) }

\* every way to call mintAuthorized and mint for an id
Recipients == Addr \cup {NoAddr}

\* some mintAuthorized or mint for `id` succeeds in state S
IssuableSomehow(S, id) ==
    \/ \E caller \in Addr, recipient \in Recipients, uri \in URIs :
         \E hook \in Hooks(recipient) :
            mintAuthorized(S, caller, recipient, id, uri, hook).ok
    \/ \E caller \in Addr, value \in Wei, uri \in URIs :
         \E signature \in Presented(value, id, uri), hook \in Hooks(caller) :
            mint(S, caller, value, id, uri, signature, hook).ok

(* C1: each identifier is issued at most once: the log never holds two     *)
(* issuances of one id, and once an id has been issued no mintAuthorized   *)
(* or mint for it succeeds again, burnt or not.                            *)
C1_IssuedAtMostOnce ==
    \A id \in Ids :
        /\ issued[id] <= 1
        /\ issued[id] >= 1 => ~IssuableSomehow(State, id)

\* an id was issued and then burnt, and another one is still to be issued
C1_Witness ==
    \E id \in Ids :
        /\ issued[id] = 1 /\ ~_exists(State, id) /\ revokedIds[id]
        /\ \E other \in Ids : IssuableSomehow(State, other)

(* C2: after every completed operation totalSupply is the number of claimed *)
(* identifiers, and it is never negative.                                  *)
C2_SupplyIsClaimedCount ==
    /\ totalSupply = Cardinality(Claimed(State))
    /\ totalSupply >= 0

\* tokens have been issued and one of them released
C2_Witness ==
    /\ totalSupply = 1
    /\ \E id \in Ids : issued[id] = 1 /\ ~_exists(State, id)

(* C3: a revoked flag that is set stays set: no step clears revokedIds[id]. *)
C3_RevokedIsPermanent ==
    [][\A id \in Ids : revokedIds[id] => revokedIds'[id]]_vars

\* one id revoked by revokeId, one by burn, and the floor raised since
C3_Witness ==
    /\ \E id \in Ids : revokedIds[id] /\ issued[id] = 0
    /\ \E id \in Ids : revokedIds[id] /\ issued[id] = 1
    /\ idFloor > 0

\* the floors of the IdFloorSet events, in log order
FloorEvents(log) == SelectSeq(log, LAMBDA e : e.name = "IdFloorSet")

(* C4: idFloor never decreases; setIdFloor(floor) with floor <= idFloor    *)
(* reverts (with "must exceed current floor" when the owner calls), so the *)
(* floors of successive successful raises strictly increase.               *)
C4_FloorIsMonotonic ==
    /\ [][idFloor' >= idFloor]_vars
    /\ [](\A floor \in Floors :
            floor <= idFloor =>
                /\ \A caller \in Addr : ~setIdFloor(State, caller, floor).ok
                /\ setIdFloor(State, Owner, floor).reason = "must exceed current floor")
    /\ [](\A i, j \in 1 .. Len(FloorEvents(events)) :
            i < j => FloorEvents(events)[i].arg < FloorEvents(events)[j].arg)

\* the floor was raised twice
C4_Witness ==
    /\ Len(FloorEvents(events)) = 2
    /\ idFloor = FloorEvents(events)[2].arg
    /\ ~setIdFloor(State, Owner, FloorEvents(events)[1].arg).ok

\* an issuance request: a call of mintAuthorized or of mint, with the
\* behaviour of the recipient's hook
DirectRequest(caller, recipient, uri, hook) ==
    [direct |-> TRUE, caller |-> caller, recipient |-> recipient, value |-> 0,
     uri |-> uri, signature |-> Malformed, hook |-> hook]
SignedRequest(caller, value, uri, signature, hook) ==
    [direct |-> FALSE, caller |-> caller, recipient |-> caller, value |-> value,
     uri |-> uri, signature |-> signature, hook |-> hook]

Issue(S, id, q) ==
    IF q.direct THEN mintAuthorized(S, q.caller, q.recipient, id, q.uri, q.hook)
    ELSE mint(S, q.caller, q.value, id, q.uri, q.signature, q.hook)

\* the requests for `id` that succeed when executed alone in state S
ValidRequests(S, id) ==
    { q \in UNION { { DirectRequest(c, a, u, h) :
                        c \in Addr, u \in URIs \ {EmptyURI}, h \in Hooks(a) }
                    \cup { SignedRequest(a, v, u, Sign(Owner, _hash(v, id, u)), h) :
                        v \in Wei, u \in URIs \ {EmptyURI}, h \in Hooks(a) } :
                    a \in Addr } :
        Issue(S, id, q).ok }

\* the same requests as their senders submit them a second time: the hook
\* of a request that reverts before the token is handed over never runs
Resubmitted(Q) == { [q EXCEPT !.hook = HookAccept] : q \in Q }

AvailabilityReasons ==
    {"tokenId already minted", "tokenId below floor", "tokenId revoked or burnt"}

(* C6: mintable and mint check availability before the signature: for an   *)
(* id that is claimed, below the floor or revoked they revert with the     *)
(* availability reason of vacant(id), whatever the signature (the owner's, *)
(* another signer's, over other terms, or malformed).                      *)
C6_AvailabilityBeforeSignature ==
    \A id \in Ids :
        vacant(State, id) # NoError =>
            /\ vacant(State, id) \in AvailabilityReasons
            /\ _exists(State, id) => vacant(State, id) = "tokenId already minted"
            /\ \A value \in Wei, uri \in URIs, signature \in Signatures :
                /\ mintable(State, value, id, uri, signature) = vacant(State, id)
                /\ \A caller \in Addr :
                    LET r == mint(State, caller, value, id, uri, signature, HookAccept)
                    IN ~r.ok /\ r.reason = vacant(State, id)

\* a signed authorization was redeemed and is replayed; another id is below
\* the floor and a malformed signature is presented for it
C6_Witness ==
    /\ \E id \in Ids :
        /\ _exists(State, id) /\ issued[id] = 1
        /\ mint(State, User, 0, id, tokenURIs[id],
                Sign(Owner, _hash(0, id, tokenURIs[id])), HookAccept).reason
               = "tokenId already minted"
    /\ \E id \in Ids :
        /\ ~_exists(State, id) /\ id < idFloor
        /\ mintable(State, 0, id, "ipfs://a", Malformed) = "tokenId below floor"

(* C7: a successful setIdFloor(f) writes idFloor and appends one           *)
(* IdFloorSet(f) event and nothing else; right after it vacant fails for   *)
(* every unclaimed id below f, and every id >= f that was vacant still is. *)
C7_SetIdFloorFrame ==
    \A caller \in Addr, f \in Floors :
        LET r == setIdFloor(State, caller, f) IN
        r.ok =>
            /\ r.st = [State EXCEPT !.idFloor = f,
                                    !.events = Append(events, IdFloorSet(f))]
            /\ \A id \in Ids :
                /\ (~_exists(State, id) /\ id < f) => vacant(r.st, id) = "tokenId below floor"
                /\ (id >= f /\ vacant(State, id) = NoError) => vacant(r.st, id) = NoError

\* the floor has just been raised past an id that was never written to,
\* and an id at or above the floor is still vacant
C7_Witness ==
    /\ Len(events) > 0 /\ events[Len(events)] = IdFloorSet(idFloor)
    /\ \E id \in Ids :
        /\ id < idFloor /\ ~_exists(State, id) /\ ~revokedIds[id]
        /\ tokenURIs[id] = EmptyURI /\ issued[id] = 0
        /\ vacant(State, id) = "tokenId below floor"
    /\ \E id \in Ids : id >= idFloor /\ vacant(State, id) = NoError

\* the events a call appended to the log
Appended(S, T) == SubSeq(T.events, Len(S.events) + 1, Len(T.events))
Withdrawals(log) == SelectSeq(log, LAMBDA e : e.name = "Withdrawal")

\* withdraw by a caller other than the owner, or whose transfer fails
C8_WithdrawRejected ==
    \A caller \in Addr :
        \A hook \in Hooks(caller) :
            LET r == withdraw(State, caller, hook) IN
            /\ caller # Owner =>
                 ~r.ok /\ r.reason = "unauthorized to withdraw" /\ After(r) = State
            /\ (caller = Owner /\ hook.kind = "reject") =>
                 ~r.ok /\ r.reason = "transfer failed" /\ After(r) = State

(* C8 as stated: withdraw by a non-owner reverts as unauthorized; by the   *)
(* owner it sends the whole balance, leaves the balance at exactly 0 and   *)
(* records one Withdrawal event with that amount; when the transfer fails  *)
(* it reverts and records nothing.                                         *)
C8_WithdrawLeavesZero ==
    /\ C8_WithdrawRejected
    /\ \A hook \in Hooks(Owner) :
        LET r == withdraw(State, Owner, hook) IN
        hook.kind # "reject" =>
            /\ r.ok
            /\ r.st.balance = 0
            /\ Withdrawals(Appended(State, r.st)) = <<Withdrawal(balance)>>

(* C8, amended: as stated, except that the balance is exactly 0 and the    *)
(* Withdrawal event is the only one recorded when the owner's receiving    *)
(* code makes no call back into the contract: the event, carrying the      *)
(* whole balance held at the call, is always the last one recorded, value  *)
(* the owner's code pays back in during the transfer stays in the          *)
(* contract, and a withdraw it nests records its own event first.          *)
C8_WithdrawSendsAll ==
    /\ C8_WithdrawRejected
    /\ \A hook \in Hooks(Owner) :
        LET r == withdraw(State, Owner, hook)
            paidBack == IF hook.call.op = "receive" THEN hook.call.value ELSE 0
        IN hook.kind # "reject" =>
            /\ r.ok
            /\ r.st.events[Len(r.st.events)] = Withdrawal(balance)
            /\ r.st.balance = paidBack
            /\ hook.kind = "accept" =>
                 r.st = [State EXCEPT !.balance = 0,
                                      !.events = Append(events, Withdrawal(balance))]
            /\ Withdrawals(Appended(State, r.st)) =
                 IF hook.call.op = "withdraw"
                     THEN <<Withdrawal(0), Withdrawal(balance)>>
                     ELSE <<Withdrawal(balance)>>

\* the owner has just withdrawn a balance that was not 0, and value that
\* arrives next can be withdrawn again
C8_Witness ==
    /\ Len(events) > 0
    /\ events[Len(events)] = Withdrawal(MaxWei)
    /\ balance = 0
    /\ withdraw(State, Owner, HookReject).reason = "transfer failed"
    /\ withdraw(State, User, HookAccept).reason = "unauthorized to withdraw"

\* the reason of _setTokenURI's require
DataError == "tokenURI cannot be empty"

(* C9: mintAuthorized and mint with an empty URI revert and claim nothing; *)
(* the reason is "tokenURI cannot be empty" whenever the call gets that    *)
(* far (authorized caller or valid signature, vacant id, a recipient that  *)
(* takes the token).                                                      *)
C9_EmptyURIRejected ==
    \A id \in Ids :
        /\ \A caller \in Addr, recipient \in Recipients :
            \A hook \in Hooks(recipient) :
                LET r == mintAuthorized(State, caller, recipient, id, EmptyURI, hook) IN
                /\ ~r.ok
                /\ After(r) = State
                /\ (/\ caller = Owner /\ vacant(State, id) = NoError
                    /\ recipient # NoAddr /\ hook.kind # "reject") => r.reason = DataError
        /\ \A caller \in Addr, value \in Wei, signature \in Signatures :
            \A hook \in Hooks(caller) :
                LET r == mint(State, caller, value, id, EmptyURI, signature, hook) IN
                /\ ~r.ok
                /\ After(r) = State
                /\ (/\ mintable(State, value, id, EmptyURI, signature) = NoError
                    /\ hook.kind # "reject") => r.reason = DataError

\* tokens are held, one more id is vacant, and issuing it with an empty URI,
\* directly or with the owner's signature over the empty URI, is refused
C9_Witness ==
    /\ totalSupply >= 1
    /\ \E id \in Ids :
        /\ vacant(State, id) = NoError
        /\ mintAuthorized(State, Owner, User, id, EmptyURI, HookAccept).reason = DataError
        /\ mint(State, User, 0, id, EmptyURI,
                Sign(Owner, _hash(0, id, EmptyURI)), HookAccept).reason = DataError
        /\ mintAuthorized(State, Owner, User, id, "ipfs://a", HookAccept).ok

(* C10: mintAuthorized, revokeId, setIdFloor and withdraw called by anyone *)
(* but the owner revert with their authorization reason and change         *)
(* nothing, whatever the other arguments and the state.                    *)
C10_OwnerOnly ==
    \A caller \in Addr \ {Owner} :
        /\ \A recipient \in Recipients, id \in Ids, uri \in URIs :
            \A hook \in Hooks(recipient) :
                LET r == mintAuthorized(State, caller, recipient, id, uri, hook) IN
                ~r.ok /\ r.reason = "unauthorized to mint" /\ After(r) = State
        /\ \A id \in Ids :
            LET r == revokeId(State, caller, id) IN
            ~r.ok /\ r.reason = "unauthorized to revoke id" /\ After(r) = State
        /\ \A floor \in Floors :
            LET r == setIdFloor(State, caller, floor) IN
            ~r.ok /\ r.reason = "unauthorized to set idFloor" /\ After(r) = State
        /\ \A hook \in Hooks(caller) :
            LET r == withdraw(State, caller, hook) IN
            ~r.ok /\ r.reason = "unauthorized to withdraw" /\ After(r) = State

\* there is value to withdraw, an id to mint or revoke and a floor to
\* raise, the owner can do each, and another caller's attempts revert
C10_Witness ==
    /\ balance > 0
    /\ withdraw(State, Owner, HookAccept).ok
    /\ withdraw(State, User, HookAccept).reason = "unauthorized to withdraw"
    /\ \E id \in Ids :
        /\ revokeId(State, Owner, id).ok
        /\ revokeId(State, User, id).reason = "unauthorized to revoke id"
        /\ mintAuthorized(State, Owner, User, id, "ipfs://a", HookAccept).ok
        /\ mintAuthorized(State, User, User, id, "ipfs://a", HookAccept).reason
               = "unauthorized to mint"
        /\ setIdFloor(State, Owner, id + 1).ok
        /\ setIdFloor(State, User, id + 1).reason = "unauthorized to set idFloor"

\* the reasons of mintable's signature check: ECDSA.recover's revert and
\* the require on the recovered signer
SignatureErrors ==
    {"ECDSA: invalid signature", "signature invalid or signer unauthorized"}

(* C11: mint(id, uri, signature) with attached value v succeeds only with  *)
(* the owner's signature over exactly (v, id, uri): with a signature of    *)
(* another signer, or over another price, id or URI, or a malformed one,   *)
(* it reverts (with the signature error when the id is available),         *)
(* claims nothing and keeps none of the attached value.                    *)
C11_OnlyOwnerSignedTerms ==
    \A caller \in Addr, v \in Wei, id \in Ids, uri \in URIs :
        /\ \A s \in Addr, p \in Wei, i \in Ids, u \in URIs :
            LET signature == Sign(s, _hash(p, i, u))
                accepted == mint(State, caller, v, id, uri, signature, HookAccept)
            IN  <<s, p, i, u>> # <<Owner, v, id, uri>> =>
                    \A hook \in HooksOf(caller, accepted) :
                        LET r == mint(State, caller, v, id, uri, signature, hook) IN
                        /\ ~r.ok
                        /\ After(r) = State
                        /\ vacant(State, id) = NoError =>
                             r.reason = "signature invalid or signer unauthorized"
        /\ \A hook \in HooksOf(caller, mint(State, caller, v, id, uri, Malformed, HookAccept)) :
            LET r == mint(State, caller, v, id, uri, Malformed, hook) IN
            /\ ~r.ok
            /\ After(r) = State
            /\ vacant(State, id) = NoError => r.reason = "ECDSA: invalid signature"

\* value is held and a token is claimed; for an id that is still available
\* the owner's signature over (1, id, uri) is good for a mint that attaches
\* 1 and for no mint that attaches 0
C11_Witness ==
    /\ totalSupply >= 1
    /\ \E id \in Ids :
        /\ vacant(State, id) = NoError
        /\ mint(State, User, 1, id, "ipfs://a",
                Sign(Owner, _hash(1, id, "ipfs://a")), HookAccept).ok
        /\ mint(State, User, 0, id, "ipfs://a",
                Sign(Owner, _hash(1, id, "ipfs://a")), HookAccept).reason
               \in SignatureErrors
        /\ mint(State, User, 1, id, "ipfs://a",
                Sign(User, _hash(1, id, "ipfs://a")), HookAccept).reason
               \in SignatureErrors

(* C12 as stated: whenever mintable(price, id, uri, signature) returns     *)
(* true, mint(id, uri, signature) with that price attached succeeds for    *)
(* any caller and leaves id claimed by the caller with pointer uri.        *)
C12_MintableImpliesMint ==
    \A caller \in Addr, price \in Wei, id \in Ids, uri \in URIs :
        \A signature \in Presented(price, id, uri), hook \in Hooks(caller) :
            LET r == mint(State, caller, price, id, uri, signature, hook) IN
            mintable(State, price, id, uri, signature) = NoError =>
                /\ r.ok
                /\ r.st.owners[id] = caller
                /\ tokenURI(r.st, id) = uri

(* C12, amended: whenever mintable(price, id, uri, signature) returns true *)
(* and uri is not empty, mint(id, uri, signature) with that price attached *)
(* succeeds for any caller whose account takes the token, and stores uri   *)
(* as the pointer of id; it leaves id claimed by the caller when the       *)
(* caller's receiving code makes no call back into the contract.  With an  *)
(* empty uri, or a caller that refuses the token, mint reverts.            *)
C12_MintableImpliesMintForTakers ==
    \A caller \in Addr, price \in Wei, id \in Ids, uri \in URIs :
        \A signature \in Presented(price, id, uri), hook \in Hooks(caller) :
            LET r == mint(State, caller, price, id, uri, signature, hook) IN
            mintable(State, price, id, uri, signature) = NoError =>
                /\ r.ok <=> (uri # EmptyURI /\ hook.kind # "reject")
                /\ r.ok =>
                    /\ tokenURI(r.st, id) = uri
                    /\ r.st.issued[id] = issued[id] + 1
                /\ (r.ok /\ hook.kind = "accept") =>
                    r.st = [State EXCEPT !.owners[id] = caller,
                                         !.issued[id] = @ + 1,
                                         !.tokenURIs[id] = uri,
                                         !.totalSupply = @ + 1,
                                         !.balance = @ + price]

\* an authorization is still redeemable after other operations have run
\* (a token claimed, the floor raised below it), by the owner and by others
C12_Witness ==
    /\ totalSupply >= 1
    /\ idFloor >= 1
    /\ \E id \in Ids :
        /\ mintable(State, 0, id, "ipfs://a", Sign(Owner, _hash(0, id, "ipfs://a")))
               = NoError
        /\ \A caller \in Addr :
            mint(State, caller, 0, id, "ipfs://a",
                 Sign(Owner, _hash(0, id, "ipfs://a")), HookAccept).ok

(* C13: vacant(id) returns true iff id is not claimed, id >= idFloor and   *)
(* id is not revoked; otherwise it fails with the reason of a condition    *)
(* that is violated (already minted / below floor / revoked or burnt).     *)
(* It is a view: it returns a verdict and no state.                        *)
C13_VacantIffAvailable ==
    \A id \in Ids :
        LET reason == vacant(State, id) IN
        /\ reason = NoError <=>
             (owners[id] = NoAddr /\ id >= idFloor /\ ~revokedIds[id])
        /\ reason \in {NoError} \cup AvailabilityReasons
        /\ reason = "tokenId already minted" => owners[id] # NoAddr
        /\ reason = "tokenId below floor" => id < idFloor
        /\ reason = "tokenId revoked or burnt" => revokedIds[id]

\* every verdict occurs: an id at the floor is available, then claimed; the
\* id under the floor is revoked and reported as below the floor
C13_Witness ==
    /\ idFloor = 1
    /\ revokedIds[0]
    /\ vacant(State, 0) = "tokenId below floor"
    /\ vacant(State, 1) = "tokenId already minted"
    /\ vacant([State EXCEPT !.idFloor = 0], 0) = "tokenId revoked or burnt"
    /\ vacant([State EXCEPT !.owners[1] = NoAddr], 1) = NoError

(* C14: unavailability is permanent: once vacant(id) fails in a state, it  *)
(* fails in every later state, whatever operations run; no id returns to   *)
(* available.                                                              *)
C14_UnavailableForever ==
    [][\A id \in Ids :
         vacant(State, id) # NoError => vacant(State, id)' # NoError]_vars

\* an id that was claimed and burnt, and another left under the floor
C14_Witness ==
    \E id \in Ids, other \in Ids :
        /\ issued[id] = 1
        /\ vacant(State, id) = "tokenId revoked or burnt"
        /\ vacant(State, other) = "tokenId below floor"

\* the accounts that may call burn
Burners == Addr \cup {Stranger}

(* C15 as stated: burn(id) succeeds only when the caller is the current    *)
(* holder of id.                                                           *)
C15_OnlyHolderBurns ==
    \A caller \in Burners, id \in Ids :
        burn(State, caller, id).ok => caller = owners[id]

(* C15, amended: burn(id) succeeds only when the caller is the current     *)
(* holder of id or the account the holder approved for id; a burn by any   *)
(* other caller fails and leaves the claimed flag, revoked flag, metadata  *)
(* pointer and totalSupply (the whole state) unchanged.                    *)
C15_OnlyHolderOrApprovedBurns ==
    \A caller \in Burners, id \in Ids :
        LET r == burn(State, caller, id)
            allowed == /\ owners[id] # NoAddr
                       /\ caller \in {owners[id], tokenApprovals[id]}
        IN  /\ r.ok <=> allowed
            /\ ~allowed => After(r) = State

\* a claimed id whose holder approved another account, which can burn it,
\* while a third account cannot; and a claimed id nobody is approved for,
\* which only its holder can burn
C15_Witness ==
    \E id \in Ids, other \in Ids :
        /\ tokenApprovals[id] \in Addr
        /\ burn(State, tokenApprovals[id], id).ok
        /\ burn(State, owners[id], id).ok
        /\ ~burn(State, Stranger, id).ok
        /\ owners[other] \in Addr
        /\ tokenApprovals[other] = NoAddr
        /\ \A caller \in Burners \ {owners[other]} : ~burn(State, caller, other).ok

(* C16: no partial issuance is observable: a mint or mintAuthorized, the   *)
(* recipient's token-received callback included, never leaves a non-empty  *)
(* pointer on an unclaimed id nor a totalSupply that differs from the      *)
(* number of claimed ids; in particular a burn(id) made from that callback *)
(* cannot do so.                                                           *)
C16_NoPartialIssuance ==
    \A recipient \in Addr, id \in Ids, uri \in URIs :
        \A hook \in Hooks(recipient) :
            LET r == mintAuthorized(State, Owner, recipient, id, uri, hook) IN
            r.ok =>
                /\ \A i \in Ids : ~_exists(r.st, i) => tokenURI(r.st, i) = EmptyURI
                /\ r.st.totalSupply = Cardinality(Claimed(r.st))

(* C17: in every reachable state tokenURI(id) is non-empty iff id is       *)
(* currently claimed.                                                      *)
C17_PointerIffClaimed ==
    \A id \in Ids : tokenURI(State, id) # EmptyURI <=> owners[id] # NoAddr

(* C18: in every reachable state no identifier is both claimed and         *)
(* revoked.                                                                *)
C18_NeverClaimedAndRevoked ==
    \A id \in Ids : ~(owners[id] # NoAddr /\ revokedIds[id])

\* one id is claimed, the other revoked after having been claimed and burnt
C18_Witness ==
    \E id \in Ids, other \in Ids :
        /\ owners[id] # NoAddr
        /\ issued[other] = 1
        /\ owners[other] = NoAddr
        /\ revokedIds[other]

(* C19: a successful burn(id) of a claimed id clears its claimed flag (and *)
(* the approval that goes with it), sets its revoked flag, clears its      *)
(* metadata pointer and decrements totalSupply by exactly 1, and changes   *)
(* nothing else: idFloor, balance, the log, and the flags and pointers of  *)
(* every other id are unchanged; it succeeds for the holder (or approved   *)
(* account) of any claimed id, below the floor or not.                     *)
C19_BurnFrame ==
    \A caller \in Burners, id \in Ids :
        LET r == burn(State, caller, id) IN
        /\ r.ok =>
            r.st = [State EXCEPT !.owners[id] = NoAddr,
                                 !.tokenApprovals[id] = NoAddr,
                                 !.tokenURIs[id] = EmptyURI,
                                 !.revokedIds[id] = TRUE,
                                 !.totalSupply = @ - 1]
        /\ (owners[id] # NoAddr /\ caller \in {owners[id], tokenApprovals[id]})
              => r.ok /\ totalSupply >= 1

\* both ids were claimed and the floor raised above them; one has been
\* burnt since, the other can still be burnt by its holder
C19_Witness ==
    \E id \in Ids, other \in Ids :
        /\ id < idFloor /\ other < idFloor
        /\ issued[id] = 1
        /\ owners[id] = NoAddr
        /\ revokedIds[id]
        /\ tokenURIs[id] = EmptyURI
        /\ owners[other] # NoAddr
        /\ burn(State, owners[other], other).ok

\* the positions of the log that hold the identifier-revoked event of id
Revocations(log, id) == { k \in DOMAIN log : log[k] = IdRevoked(id) }

(* C20: revokeId(id) by the owner succeeds iff id is currently available;  *)
(* otherwise it fails with vacant's reason and changes nothing.  On        *)
(* success it sets only revokedIds[id] and appends exactly one             *)
(* identifier-revoked event carrying id; so each id appears at most once   *)
(* among the identifier-revoked events of any execution.                   *)
C20_RevokeOnceIfAvailable ==
    \A id \in Ids :
        LET r == revokeId(State, Owner, id) IN
        /\ r.ok <=> vacant(State, id) = NoError
        /\ ~r.ok => r.reason = vacant(State, id) /\ After(r) = State
        /\ r.ok => r.st = [State EXCEPT !.revokedIds[id] = TRUE,
                                        !.events = Append(@, IdRevoked(id))]
        /\ Cardinality(Revocations(events, id)) <= 1

\* an id has been revoked (its event is logged) and a second revokeId of it
\* is refused, as is the revokeId of a claimed id
C20_Witness ==
    \E id \in Ids, other \in Ids :
        /\ Cardinality(Revocations(events, id)) = 1
        /\ revokeId(State, Owner, id).reason = "tokenId revoked or burnt"
        /\ revokeId(State, Owner, other).reason = "tokenId already minted"

====
